---- MODULE Spec2Model ----
(***************************************************************************)
(* A model of Seq2SeqModel (seq2seq_model.py): the bucketed variational    *)
(* sequence-to-sequence orchestrator.  The object's construction, its     *)
(* batch rendering (get_batch), the bucketed objective assembly            *)
(* (variational_decoder_with_buckets) and its session entry points (step,  *)
(* encode_to_latent, decode_from_latent) are modelled.                     *)
(***************************************************************************)
EXTENDS Integers, Sequences, FiniteSets, TLC

\* ------------------------------------------------------------------ bounds
\* Largest batch_size a model is constructed with.
MaxBatch == 2
\* Longest input / output sequence of an example in the data.
MaxSeqLen == 2
\* Longest targets / weights list the bucketed objective is built with.
MaxListLen == 5
\* Cap on the number of training steps applied to one model.
MaxTrain == 2

\* ------------------------------------------------- reserved token ids
PAD_ID == 0
GO_ID == 1

\* Tokens that occur in example input and output sequences.  PAD_ID is an
\* ordinary integer to get_batch, which does not validate its data.
InTokens == {PAD_ID, 3}
OutTokens == {5, 6}

\* The bucket lists a model is constructed with: the empty list, one-bucket
\* lists, a sorted two-bucket list, and two lists that are not sorted
\* ascending: in one the first bucket's input width exceeds the last
\* bucket's, in the other its output width does.
BucketLists ==
    { << >>,
      << <<1, 1>> >>,
      << <<2, 4>> >>,
      << <<1, 1>>, <<2, 2>> >>,
      << <<2, 1>>, <<1, 2>> >>,
      << <<1, 2>>, <<1, 1>> >> }

VARIABLES
    buckets,        \* self.buckets
    batch_size,     \* self.batch_size
    word_dropout,   \* self.word_dropout_keep_prob < 1
    graph,          \* what construction built: placeholders, attributes, ops
    status,         \* "constructed", or the exception __init__ raised
    objective,      \* the call of variational_decoder_with_buckets and its outcome
    params,         \* the trainable parameters: per variable set, a version
                    \* (one per applied update)
    global_step,    \* self.global_step
    learning_rate,  \* self.learning_rate
    kl_rate,        \* self.kl_rate
    data,           \* the caller's data: bucket index -> set of (input, output)
    batch,          \* what the most recent get_batch returned
    last            \* the most recent call on the object and its outcome

vars == <<buckets, batch_size, word_dropout, graph, status, objective, params,
          global_step, learning_rate, kl_rate, data, batch, last>>

\* ------------------------------------------------------------- helpers
Min(a, b) == IF a < b THEN a ELSE b

SeqsUpTo(S, n) == UNION {[1..k -> S] : k \in 0..n}

\* [x] * n of Python: the empty list when n <= 0.
Repeat(x, n) == IF n > 0 THEN [i \in 1..n |-> x] ELSE << >>

\* list(reversed(s))
Reversed(s) == [i \in 1..Len(s) |-> s[Len(s) + 1 - i]]

\* --------------------------------------------------------------- get_batch
\* encoder_inputs.append(list(reversed(encoder_input + encoder_pad)))
EncoderRow_NoReverse(encoder_input, encoder_size) ==
    encoder_input \o Repeat(PAD_ID, encoder_size - Len(encoder_input))

EncoderRow(encoder_input, encoder_size) ==
    Reversed(encoder_input \o Repeat(PAD_ID, encoder_size - Len(encoder_input)))

\* decoder_inputs.append([GO_ID] + decoder_input + [PAD_ID] * decoder_pad_size)
DecoderRow(decoder_input, decoder_size) ==
    <<GO_ID>> \o decoder_input
              \o Repeat(PAD_ID, decoder_size - Len(decoder_input) - 1)

\* Batch-major re-indexing of the encoder rows: one vector per length_idx in
\* range(encoder_size), one entry per batch_idx in range(batch_size).
BatchEncoderInputs(rows, encoder_size, bs) ==
    [length_idx \in 1..encoder_size |->
        [batch_idx \in 1..bs |-> rows[batch_idx][length_idx]]]

BatchDecoderInputs_Short(rows, decoder_size, bs) ==
    [length_idx \in 1..(decoder_size - 1) |->
        [batch_idx \in 1..bs |-> rows[batch_idx][length_idx]]]

BatchDecoderInputs(rows, decoder_size, bs) ==
    [length_idx \in 1..decoder_size |->
        [batch_idx \in 1..bs |-> rows[batch_idx][length_idx]]]

\* One target weight.  length_idx is the 0-based decoder position of the code;
\* the target is the decoder row shifted by one, read only below the last slot.
TargetWeight_NoLastSlot(row, length_idx, decoder_size) ==
    IF length_idx < decoder_size - 1 /\ row[length_idx + 2] = PAD_ID
    THEN 0 ELSE 1

TargetWeight(row, length_idx, decoder_size) ==
    IF length_idx = decoder_size - 1
    THEN 0
    ELSE IF row[length_idx + 2] = PAD_ID THEN 0 ELSE 1

BatchWeights(rows, decoder_size, bs) ==
    [l \in 1..decoder_size |->
        [batch_idx \in 1..bs |-> TargetWeight(rows[batch_idx], l - 1, decoder_size)]]

\* get_batch(data, bucket_id) for the examples random.choice returned.
RenderBatch(picks, bucket_id) ==
    LET encoder_size == buckets[bucket_id][1]
        decoder_size == buckets[bucket_id][2]
        enc_rows == [b \in 1..batch_size |-> EncoderRow(picks[b][1], encoder_size)]
        dec_rows == [b \in 1..batch_size |-> DecoderRow(picks[b][2], decoder_size)]
    IN  [ returned       |-> TRUE,
          bucket_id      |-> bucket_id,
          examples       |-> picks,
          encoder_inputs |-> BatchEncoderInputs(enc_rows, encoder_size, batch_size),
          decoder_inputs |-> BatchDecoderInputs(dec_rows, decoder_size, batch_size),
          weights        |-> BatchWeights(dec_rows, decoder_size, batch_size) ]

NoBatch ==
    [ returned |-> FALSE, bucket_id |-> 0, examples |-> << >>,
      encoder_inputs |-> << >>, decoder_inputs |-> << >>, weights |-> << >> ]

\* ------------------------------------------ variational_decoder_with_buckets
\* The objective assembly for a decoder-placeholder list of n_decoder_inputs
\* entries, a targets list of n_targets and a weights list of n_weights.
\* built counts the buckets whose sampler and decoder were built, that is the
\* entries appended to self._outputs; n_outputs[j] is the number of decoder
\* outputs of bucket j, one per entry of decoder_inputs[:bucket[1]].  short
\* names the list one of the two precondition checks found too short.
ObjectiveError(what) ==
    [ error |-> "ValueError", short |-> what, built |-> 0, n_outputs |-> << >> ]

\* Whether seq2seq_helper.sequence_loss compares the lengths of the lists it
\* is handed is not decided by this file: a helper that does (as
\* legacy_seq2seq.sequence_loss does) raises ValueError on lists of unequal
\* length, one that does not builds the loss.
LossLengthChecks == BOOLEAN

SequenceLoss(n_logits, n_targets, n_weights, checks_lengths) ==
    IF checks_lengths /\ (n_targets # n_logits \/ n_weights # n_logits)
    THEN "ValueError"
    ELSE "none"

\* The loss call of bucket j: the outputs of decoder_inputs[:bucket[1]]
\* against self._target[:bucket[1]] and self._weights[:bucket[1]].
BucketLoss(j, n_decoder_inputs, n_targets, n_weights, bkts, checks_lengths) ==
    SequenceLoss(Min(bkts[j][2], n_decoder_inputs), Min(bkts[j][2], n_targets),
                 Min(bkts[j][2], n_weights), checks_lengths)

\* The loop over the buckets: it stops at the first bucket whose loss call
\* raises, after that bucket's sampler and decoder were built.
BucketLoop(n_decoder_inputs, n_targets, n_weights, bkts, checks_lengths) ==
    LET raising == { j \in 1..Len(bkts) :
                       BucketLoss(j, n_decoder_inputs, n_targets, n_weights,
                                  bkts, checks_lengths) # "none" }
        built == IF raising = {}
                 THEN Len(bkts)
                 ELSE CHOOSE j \in raising : \A k \in raising : j <= k
    IN  [ error |-> IF raising = {} THEN "none" ELSE "ValueError",
          short |-> "none",
          built |-> built,
          n_outputs |-> [j \in 1..built |-> Min(bkts[j][2], n_decoder_inputs)] ]

VariationalDecoderWithBuckets_NoWeightsCheck(n_decoder_inputs, n_targets, n_weights, bkts, checks_lengths) ==
    IF n_targets < bkts[Len(bkts)][2]
    THEN ObjectiveError("targets")
    ELSE BucketLoop(n_decoder_inputs, n_targets, n_weights, bkts, checks_lengths)

VariationalDecoderWithBuckets(n_decoder_inputs, n_targets, n_weights, bkts, checks_lengths) ==
    IF n_targets < bkts[Len(bkts)][2]
    THEN ObjectiveError("targets")
    ELSE IF n_weights < bkts[Len(bkts)][2]
    THEN ObjectiveError("weights")
    ELSE BucketLoop(n_decoder_inputs, n_targets, n_weights, bkts, checks_lengths)

\* ---------------------------------------------------------------- __init__
\* learning_rate argument of the constructor.
LearningRateArg == 1

\* (num_samples, target_vocab_size) pairs a model is constructed with.
SamplingConfigs ==
    { [num_samples |-> 0,   target_vocab_size |-> 10],
      [num_samples |-> 512, target_vocab_size |-> 20000] }

\* num_sampled=512: the number of classes sampled_loss asks
\* tf.nn.sampled_softmax_loss to sample.
NumSampled == 512

NoGraph ==
    [ n_encoder_inputs |-> 0, n_decoder_inputs |-> 0, n_target_weights |-> 0,
      n_outputs |-> << >>, output_projection |-> FALSE, has_local_w_t |-> FALSE,
      has_updates |-> FALSE, feed_previous |-> FALSE, variables |-> << >>,
      num_samples |-> 0, target_vocab_size |-> 0, num_sampled |-> 0,
      optimizer |-> "None", weight_initializer |-> "None" ]

\* The optimizer and weight_initializer arguments of the constructor: None
\* (the default of both), or an optimizer and a callable.
Optimizers == {"None", "given"}
WeightInitializers == {"None", "callable"}

\* What is known of a model whose constructor has not built its graph: the
\* arguments.
ArgsGraph(sampling, optimizer, weight_initializer) ==
    [NoGraph EXCEPT !.num_samples = sampling.num_samples,
                    !.target_vocab_size = sampling.target_vocab_size,
                    !.optimizer = optimizer,
                    !.weight_initializer = weight_initializer]

\* The (num_samples, target_vocab_size) a graph record holds.
SamplingOf(g) ==
    [num_samples |-> g.num_samples, target_vocab_size |-> g.target_vocab_size]

NoObjective ==
    [ state |-> "none", n_decoder_inputs |-> 0, n_targets |-> 0, n_weights |-> 0,
      error |-> "none", short |-> "none", built |-> 0, n_outputs |-> << >> ]

\* The record kept of one call of variational_decoder_with_buckets.
ObjectiveCall(state, n_decoder_inputs, n_targets, n_weights, r) ==
    [ state |-> state, n_decoder_inputs |-> n_decoder_inputs,
      n_targets |-> n_targets, n_weights |-> n_weights,
      error |-> r.error, short |-> r.short, built |-> r.built,
      n_outputs |-> r.n_outputs ]

\* Sampled softmax only makes sense if we sample less than vocabulary size.
SampledSoftmax(sampling) ==
    sampling.num_samples > 0 /\ sampling.num_samples < sampling.target_vocab_size

\* feed_previous = feed_previous or forward_only
FeedPrevious(feed_previous, forward_only) == feed_previous \/ forward_only

\* reuse=True if j > 0 else None: the variable scope a bucket is built in
\* (j is 1-based here).
VariableScopeReuse(j) == j > 1

\* The variable set the computation of bucket j uses, named by the bucket
\* whose build created it: built with reuse, a bucket creates no variables and
\* uses those of the first.
BucketVariables_NoReuse(j) == j

BucketVariables(j) == IF VariableScopeReuse(j) THEN 1 ELSE j

\* The parameters before any update, one version per bucket that could own
\* a variable set.
InitialParams(bkts) == [v \in 1..Len(bkts) |-> 0]

\* for i in range(buckets[-1][0]): one encoder placeholder each.
\* Last bucket is the biggest one.
EncoderPlaceholders_Widest(bkts) ==
    CHOOSE n \in {bkts[j][1] : j \in 1..Len(bkts)} :
        \A j \in 1..Len(bkts) : bkts[j][1] <= n

EncoderPlaceholders(bkts) == bkts[Len(bkts)][1]

\* for i in range(buckets[-1][1] + 1): one decoder and one weight placeholder.
DecoderPlaceholders(bkts) == bkts[Len(bkts)][2] + 1

\* Seq2SeqModel(...): with sampled softmax the projection is created with
\* initializer=weight_initializer(), a TypeError if weight_initializer is
\* None; the placeholders are sized by the last bucket, the targets are the
\* decoder placeholders shifted by one, the objective is built for every
\* bucket (a ValueError if the helper's loss checks lengths and a bucket's
\* output width exceeds the number of targets), and unless forward_only the
\* update ops are built with optimizer.apply_gradients, an AttributeError if
\* optimizer is None.
Construct(bkts, sampling, forward_only, feed_previous, optimizer, weight_initializer, checks_lengths) ==
    IF SampledSoftmax(sampling) /\ weight_initializer = "None"
    THEN [ status |-> "TypeError",
           graph |-> ArgsGraph(sampling, optimizer, weight_initializer),
           objective |-> NoObjective ]
    ELSE IF Len(bkts) = 0
    THEN [ status |-> "IndexError",
           graph |-> ArgsGraph(sampling, optimizer, weight_initializer),
           objective |-> NoObjective ]
    ELSE
      LET n_enc == EncoderPlaceholders(bkts)
          n_dec == DecoderPlaceholders(bkts)
          n_targets == n_dec - 1
          r == VariationalDecoderWithBuckets(n_dec, n_targets, n_dec, bkts, checks_lengths)
      IN  [ status |-> IF r.error # "none" THEN r.error
                       ELSE IF ~forward_only /\ optimizer = "None"
                       THEN "AttributeError"
                       ELSE "constructed",
            objective |-> ObjectiveCall("done", n_dec, n_targets, n_dec, r),
            graph |->
              [ n_encoder_inputs  |-> n_enc,
                n_decoder_inputs  |-> n_dec,
                n_target_weights  |-> n_dec,
                n_outputs         |-> r.n_outputs,
                output_projection |-> SampledSoftmax(sampling),
                has_local_w_t     |-> SampledSoftmax(sampling) /\ r.built > 0,
                has_updates       |-> ~forward_only,
                feed_previous     |-> FeedPrevious(feed_previous, forward_only),
                variables         |-> [j \in 1..r.built |-> BucketVariables(j)],
                num_samples       |-> sampling.num_samples,
                target_vocab_size |-> sampling.target_vocab_size,
                num_sampled       |-> IF SampledSoftmax(sampling) /\ r.built > 0
                                      THEN NumSampled ELSE 0,
                optimizer         |-> optimizer,
                weight_initializer |-> weight_initializer ] ]

\* ------------------------------------------------ tensors and their values
\* A mean or log-variance tensor's value: which map produced it (f), from
\* which parameters (p), which encoder feed (x), for which bucket (b).
Term(f, p, x, b) == [f |-> f, p |-> p, x |-> x, b |-> b]

Unfed == Term("unfed", 0, "none", 0)

\* np.full((batch_size, latent_dim), -800.0): the log-variance step feeds
\* when prob is false.
DegenerateLogvar == Term("const", 0, "-800.0", 0)

\* A mean / log-variance a caller made up (interpolation, a prior sample).
GivenMeans == Term("given", 0, "m", 0)
GivenLogvars == Term("given", 0, "v", 0)

\* encoder -> latent: a deterministic map of the parameters and the fed input.
EncoderMeans(p, x, b) == Term("mean", p, x, b)
EncoderLogvars(p, x, b) == Term("logvar", p, x, b)

\* exp(0.5 * logvar): 0 in float32 for the fed -800.0, positive otherwise.
Sigma(logvar) == IF logvar = DegenerateLogvar THEN 0 ELSE 1

\* The reparameterized draw z = mean + exp(0.5 * logvar) * noise, kept as
\* the mean and the deviation from it.
Sample(mean, logvar, noise) == [mean |-> mean, dev |-> Sigma(logvar) * noise]

NoLatent == [mean |-> Unfed, dev |-> 0]

\* The value session.run returns for one fetch.
Value(kind, b, pos, p, z, dec, drop) ==
    [kind |-> kind, bucket |-> b, pos |-> pos, p |-> p, z |-> z,
     dec |-> dec, drop |-> drop]

NoneValue == Value("None", 0, 0, 0, NoLatent, "none", 0)

Fetch(kind, b, pos) == [kind |-> kind, bucket |-> b, pos |-> pos]

\* Feeds a caller passes as encoder inputs and as decoder inputs (contents;
\* the lengths of the lists are separate arguments of the actions).
EncoderFeeds == {"x1"}
DecoderFeeds == {"d1"}
\* The sampler's noise draw and the word-dropout draw of one session.run.
Noise == {0, 1}
DropDraws == IF word_dropout THEN {0, 1} ELSE {0}

\* List lengths a caller passes for a bucket width: one short, exact, one long.
LenChoices(size) == {n \in (size - 1)..(size + 1) : n >= 0}

\* The lengths of the (encoder_inputs, decoder_inputs, target_weights) lists
\* of one call: the bucket's widths, with at most one list of another length.
FeedLengths(encoder_size, decoder_size) ==
    { <<e, decoder_size, decoder_size>> : e \in LenChoices(encoder_size) }
    \cup { <<encoder_size, n, decoder_size>> : n \in LenChoices(decoder_size) }
    \cup { <<encoder_size, decoder_size, n>> : n \in LenChoices(decoder_size) }

\* The same for the (decoder_inputs, target_weights) lists of decode_from_latent.
LatentFeedLengths(decoder_size) ==
    { <<n, decoder_size>> : n \in LenChoices(decoder_size) }
    \cup { <<decoder_size, n>> : n \in LenChoices(decoder_size) }

\* The version of the parameters the computation of bucket b reads.
ParamsOf(b) == params[graph.variables[b]]

\* The means / logvars tensor of bucket b under a feed: the fed value when
\* the tensor itself is fed, the encoder's value for the fed input otherwise.
MeansTensor(feed, b) ==
    IF feed.means # Unfed THEN feed.means ELSE EncoderMeans(ParamsOf(b), feed.encoder, b)

LogvarsTensor(feed, b) ==
    IF feed.logvars # Unfed THEN feed.logvars
    ELSE EncoderLogvars(ParamsOf(b), feed.encoder, b)

Latent(feed, b, noise) ==
    Sample(MeansTensor(feed, b), LogvarsTensor(feed, b), noise)

\* The decoder reads the fed decoder inputs unless it feeds back its own
\* predictions (feed_previous), when only the leading GO is read.
DecoderReads(feed) == IF graph.feed_previous THEN "GO" ELSE feed.decoder

\* session.run's value for one fetch under a feed.
FetchValue(f, feed, noise, drop) ==
    IF f.kind = "update"
    THEN NoneValue
    ELSE Value(f.kind, f.bucket, f.pos, ParamsOf(f.bucket), Latent(feed, f.bucket, noise),
               DecoderReads(feed), drop)

\* session.run(fetches, feed): the values, in the order of the fetches.
SessionRun(fetches, feed, noise, drop) ==
    [i \in 1..Len(fetches) |-> FetchValue(fetches[i], feed, noise, drop)]

\* The buckets whose update op a list of fetches executes.
UpdatesRun(fetches) ==
    {fetches[i].bucket : i \in {j \in 1..Len(fetches) : fetches[j].kind = "update"}}

\* outputs[k:] of Python (k is 0-based)
SliceFrom(s, k) == [i \in 1..(Len(s) - k) |-> s[i + k]]

\* ------------------------------------------------------ the record of a call
NoCall ==
    [ op |-> "new", bucket_id |-> 0, enc_len |-> 0, dec_len |-> 0, w_len |-> 0,
      forward_only |-> FALSE, prob |-> FALSE, error |-> "none",
      updates_run |-> {}, gradient_norm |-> NoneValue, loss |-> NoneValue,
      kl_cost |-> NoneValue, outputs_none |-> TRUE, outputs |-> << >>,
      means |-> Unfed, logvars |-> Unfed, dec |-> "none", value |-> 0 ]

\* --------------------------------------------------------------------- step
\* The exception step raises, "none" if it reaches its return.  debug is what
\* happens in the debugging block left in step: the developer continues from
\* pdb.set_trace() or quits it, or one of the ad-hoc loss re-computations
\* raises.
StepError_NoWeightsCheck(bucket_id, enc_len, dec_len, w_len, forward_only, debug) ==
    IF enc_len # buckets[bucket_id][1] \/ dec_len # buckets[bucket_id][2]
    THEN "ValueError" ELSE "none"

StepError(bucket_id, enc_len, dec_len, w_len, forward_only, debug) ==
    LET encoder_size == buckets[bucket_id][1]
        decoder_size == buckets[bucket_id][2]
    IN  IF enc_len # encoder_size THEN "ValueError"
        ELSE IF dec_len # decoder_size THEN "ValueError"
        ELSE IF w_len # decoder_size THEN "ValueError"
        ELSE IF encoder_size > graph.n_encoder_inputs THEN "IndexError"
        ELSE IF decoder_size > graph.n_decoder_inputs THEN "IndexError"
        ELSE IF decoder_size > graph.n_target_weights THEN "IndexError"
        ELSE IF decoder_size >= graph.n_decoder_inputs THEN "IndexError"
        ELSE IF ~forward_only /\ ~graph.has_updates THEN "AttributeError"
        ELSE IF forward_only /\ decoder_size > graph.n_outputs[bucket_id]
             THEN "IndexError"
        ELSE IF debug = "quit" THEN "BdbQuit"
        ELSE IF ~graph.has_local_w_t THEN "AttributeError"
        ELSE IF debug = "raise" THEN "DebugCallError"
        ELSE "none"

\* Input feed of step.  If not prob, the log-variance tensor of the bucket is
\* fed -800.0 and the sampler returns the mean.
StepFeed_NeverDegenerate(x, d, prob) ==
    [encoder |-> x, means |-> Unfed, logvars |-> Unfed, decoder |-> d]

StepFeed(x, d, prob) ==
    [ encoder |-> x, means |-> Unfed,
      logvars |-> IF ~prob THEN DegenerateLogvar ELSE Unfed, decoder |-> d ]

\* Output feed of step: depends on whether we do a backward step or not.
StepOutputFeed_FirstBucketUpdate(bucket_id, forward_only) ==
    IF ~forward_only
    THEN << Fetch("update", 1, 0), Fetch("gradient_norm", bucket_id, 0),
            Fetch("loss", bucket_id, 0), Fetch("kl_cost", bucket_id, 0) >>
    ELSE << Fetch("loss", bucket_id, 0), Fetch("kl_cost", bucket_id, 0) >>
         \o [l \in 1..buckets[bucket_id][2] |-> Fetch("output", bucket_id, l)]

StepOutputFeed(bucket_id, forward_only) ==
    IF ~forward_only
    THEN << Fetch("update", bucket_id, 0), Fetch("gradient_norm", bucket_id, 0),
            Fetch("loss", bucket_id, 0), Fetch("kl_cost", bucket_id, 0) >>
    ELSE << Fetch("loss", bucket_id, 0), Fetch("kl_cost", bucket_id, 0) >>
         \o [l \in 1..buckets[bucket_id][2] |-> Fetch("output", bucket_id, l)]

\* What step returns from the values session.run gave (outputs, 1-based here).
StepReturn(call, outputs, forward_only) ==
    IF ~forward_only
    THEN [call EXCEPT !.gradient_norm = outputs[2], !.loss = outputs[3],
                      !.kl_cost = outputs[4], !.outputs_none = TRUE,
                      !.outputs = << >>]
    ELSE [call EXCEPT !.gradient_norm = NoneValue, !.loss = outputs[1],
                      !.kl_cost = outputs[2], !.outputs_none = FALSE,
                      !.outputs = SliceFrom(outputs, 2)]

StepCall(bucket_id, enc_len, dec_len, w_len, forward_only, prob, x, d, debug, noise, drop) ==
    LET err == StepError(bucket_id, enc_len, dec_len, w_len, forward_only, debug)
        call == [NoCall EXCEPT !.op = "step", !.bucket_id = bucket_id,
                               !.enc_len = enc_len, !.dec_len = dec_len,
                               !.w_len = w_len, !.forward_only = forward_only,
                               !.prob = prob, !.error = err]
        output_feed == StepOutputFeed(bucket_id, forward_only)
    IN  IF err # "none"
        THEN call
        ELSE StepReturn([call EXCEPT !.updates_run = UpdatesRun(output_feed),
                                     !.dec = d],
                        SessionRun(output_feed, StepFeed(x, d, prob), noise, drop),
                        forward_only)

\* params = tf.trainable_variables(): the variables an update op writes.
\* learning_rate, kl_rate and global_step are created with trainable=False.
TrainableVariables_All == {"params", "learning_rate", "kl_rate"}

TrainableVariables == {"params"}

\* The effect of the executed update ops on the variables: apply_gradients
\* writes the trainable variables and increments global_step.
Written(name, call) == name \in TrainableVariables /\ call.updates_run # {}

\* The variable sets the executed update ops write: those the losses of
\* their buckets are computed from.
VariablesWritten(call) == {graph.variables[b] : b \in call.updates_run}

ParamsAfter(call) ==
    [v \in DOMAIN params |->
        IF Written("params", call) /\ v \in VariablesWritten(call)
        THEN params[v] + 1 ELSE params[v]]

LearningRateAfter(call) ==
    IF Written("learning_rate", call) THEN learning_rate + 1 ELSE learning_rate

KlRateAfter(call) == IF Written("kl_rate", call) THEN kl_rate + 1 ELSE kl_rate

GlobalStepAfter_PerBucket(call) ==
    global_step + (IF call.updates_run # {} THEN call.bucket_id ELSE 0)

GlobalStepAfter(call) == global_step + Cardinality(call.updates_run)

Step(bucket_id, enc_len, dec_len, w_len, forward_only, prob, x, d, debug, noise, drop) ==
    /\ status = "constructed"
    /\ forward_only \/ global_step < MaxTrain
    /\ LET call == StepCall(bucket_id, enc_len, dec_len, w_len, forward_only,
                            prob, x, d, debug, noise, drop)
       IN  /\ last' = call
           /\ params' = ParamsAfter(call)
           /\ global_step' = GlobalStepAfter(call)
           /\ learning_rate' = LearningRateAfter(call)
           /\ kl_rate' = KlRateAfter(call)
    /\ batch' = NoBatch
    /\ UNCHANGED <<buckets, batch_size, word_dropout, graph, status, objective,
                   data>>

\* --------------------------------------------------------- encode_to_latent
EncodeError(bucket_id, enc_len) ==
    IF enc_len # buckets[bucket_id][1] THEN "ValueError"
    ELSE IF buckets[bucket_id][1] > graph.n_encoder_inputs THEN "IndexError"
    ELSE "none"

EncodeCall(bucket_id, enc_len, x) ==
    LET err == EncodeError(bucket_id, enc_len)
        call == [NoCall EXCEPT !.op = "encode_to_latent", !.bucket_id = bucket_id,
                               !.enc_len = enc_len, !.error = err]
        feed == [encoder |-> x, means |-> Unfed, logvars |-> Unfed, decoder |-> "none"]
    IN  IF err # "none"
        THEN call
        ELSE [call EXCEPT !.means = MeansTensor(feed, bucket_id),
                          !.logvars = LogvarsTensor(feed, bucket_id)]

EncodeToLatent(bucket_id, enc_len, x) ==
    /\ status = "constructed"
    /\ last' = EncodeCall(bucket_id, enc_len, x)
    /\ batch' = NoBatch
    /\ UNCHANGED <<buckets, batch_size, word_dropout, graph, status, objective,
                   params, global_step, learning_rate, kl_rate, data>>

\* ------------------------------------------------------- decode_from_latent
\* No length check: the feed loop indexes the placeholders and the caller's
\* lists up to the bucket's output width.
DecodeError(bucket_id, dec_len, w_len) ==
    LET decoder_size == buckets[bucket_id][2]
    IN  IF decoder_size > graph.n_decoder_inputs \/ decoder_size > dec_len
        THEN "IndexError"
        ELSE IF decoder_size > graph.n_target_weights \/ decoder_size > w_len
        THEN "IndexError"
        ELSE IF decoder_size >= graph.n_decoder_inputs THEN "IndexError"
        ELSE IF decoder_size > graph.n_outputs[bucket_id] THEN "IndexError"
        ELSE "none"

\* Input feed of decode_from_latent: the means and logvars tensors themselves.
DecodeFeed(means, logvars, d) ==
    [encoder |-> "none", means |-> means, logvars |-> logvars, decoder |-> d]

DecodeOutputFeed(bucket_id) ==
    [l \in 1..buckets[bucket_id][2] |-> Fetch("output", bucket_id, l)]

DecodeCall(bucket_id, means, logvars, dec_len, w_len, d, noise, drop) ==
    LET err == DecodeError(bucket_id, dec_len, w_len)
        call == [NoCall EXCEPT !.op = "decode_from_latent",
                               !.bucket_id = bucket_id, !.dec_len = dec_len,
                               !.w_len = w_len, !.means = means,
                               !.logvars = logvars, !.error = err]
    IN  IF err # "none"
        THEN call
        ELSE [call EXCEPT !.dec = d, !.outputs_none = FALSE,
                          !.outputs = SessionRun(DecodeOutputFeed(bucket_id),
                                                 DecodeFeed(means, logvars, d),
                                                 noise, drop)]

\* The (means, logvars) pairs a caller passes: what encode_to_latent returns
\* for an input, that mean with the degenerate log-variance, or values of the
\* caller's own.
LatentArgs(bucket_id) ==
    UNION { { <<EncoderMeans(ParamsOf(bucket_id), x, bucket_id), EncoderLogvars(ParamsOf(bucket_id), x, bucket_id)>>,
              <<EncoderMeans(ParamsOf(bucket_id), x, bucket_id), DegenerateLogvar>> }
            : x \in EncoderFeeds }
    \cup { <<GivenMeans, GivenLogvars>> }

DecodeFromLatent(bucket_id, means, logvars, dec_len, w_len, d, noise, drop) ==
    /\ status = "constructed"
    /\ last' = DecodeCall(bucket_id, means, logvars, dec_len, w_len, d, noise, drop)
    /\ batch' = NoBatch
    /\ UNCHANGED <<buckets, batch_size, word_dropout, graph, status, objective,
                   params, global_step, learning_rate, kl_rate, data>>

\* ------------------------------------------------------------ kl_rate_update
\* Values a caller assigns to kl_rate (tenths).
KlRates == {0, 10}

\* session.run(model.kl_rate_update, {model.new_kl_rate: v})
KlRateUpdate(v) ==
    /\ status = "constructed"
    /\ kl_rate' = v
    /\ last' = [NoCall EXCEPT !.op = "kl_rate_update", !.value = v]
    /\ batch' = NoBatch
    /\ UNCHANGED <<buckets, batch_size, word_dropout, graph, status, objective,
                   params, global_step, learning_rate, data>>

\* ----------------------------------------------------------------- get_batch
\* random.choice(data[bucket_id]), batch_size times: IndexError on no data.
GetBatch(bucket_id) ==
    /\ status = "constructed"
    /\ IF data[bucket_id] = {}
       THEN /\ batch' = NoBatch
            /\ last' = [NoCall EXCEPT !.op = "get_batch", !.bucket_id = bucket_id,
                                      !.error = "IndexError"]
       ELSE \E picks \in [1..batch_size -> data[bucket_id]] :
            /\ batch' = RenderBatch(picks, bucket_id)
            /\ last' = [NoCall EXCEPT !.op = "get_batch", !.bucket_id = bucket_id]
    /\ UNCHANGED <<buckets, batch_size, word_dropout, graph, status, objective,
                   params, global_step, learning_rate, kl_rate, data>>

\* ------------------------------------------------------------ specifications
BucketIds == 1..Len(buckets)

\* The state after Seq2SeqModel(...) returned or raised.
Constructed(bkts, bs, sampling, forward_only, feed_previous, dropout, c) ==
    /\ buckets = bkts
    /\ batch_size = bs
    /\ word_dropout = dropout
    /\ graph = c.graph
    /\ status = c.status
    /\ objective = c.objective
    /\ params = InitialParams(bkts)
    /\ global_step = 0
    /\ learning_rate = LearningRateArg
    /\ kl_rate = 0
    /\ batch = NoBatch
    /\ last = NoCall

\* The caller's data of the model: one example in the first bucket, none in
\* the others.
SmallData(bkts) == [b \in 1..Len(bkts) |-> IF b = 1 THEN {<< <<3>>, <<5>> >>} ELSE {}]

\* The (optimizer, weight_initializer) pairs a model is constructed with:
\* the defaults, or both given.
ConstructorTools == {<<"None", "None">>, <<"given", "callable">>}

Init ==
    \E bkts \in BucketLists \ {<< <<2, 4>> >>}, bs \in {MaxBatch},
       sampling \in SamplingConfigs,
       forward_only \in BOOLEAN, feed_previous \in BOOLEAN, dropout \in BOOLEAN,
       tools \in ConstructorTools, checks_lengths \in LossLengthChecks :
        /\ Constructed(bkts, bs, sampling, forward_only, feed_previous, dropout,
                       Construct(bkts, sampling, forward_only, feed_previous,
                                 tools[1], tools[2], checks_lengths))
        /\ data = SmallData(bkts)

\* What a call draws while it runs matters only once it gets there: the
\* debugger's outcome once step reaches pdb.set_trace(), the sampler's noise
\* and the word dropout once the output feed is run.  A call that raises
\* before then has a single outcome.
DebugChoices(reaches) == IF reaches THEN {"continue", "quit", "raise"} ELSE {"continue"}
NoiseChoices(passes) == IF passes THEN Noise ELSE {0}
DropChoices(passes) == IF passes THEN DropDraws ELSE {0}

DoStep ==
    /\ status = "constructed"
    /\ \E bucket_id \in BucketIds, forward_only \in BOOLEAN, prob \in BOOLEAN :
       \E lens \in FeedLengths(buckets[bucket_id][1], buckets[bucket_id][2]),
          x \in EncoderFeeds, d \in DecoderFeeds :
       \E debug \in DebugChoices(StepError(bucket_id, lens[1], lens[2], lens[3],
                                           forward_only, "quit") = "BdbQuit") :
       \E noise \in NoiseChoices(StepError(bucket_id, lens[1], lens[2], lens[3],
                                           forward_only, debug) = "none"),
          drop \in DropChoices(StepError(bucket_id, lens[1], lens[2], lens[3],
                                         forward_only, debug) = "none") :
           Step(bucket_id, lens[1], lens[2], lens[3], forward_only, prob, x, d,
                debug, noise, drop)

DoEncode ==
    \E bucket_id \in BucketIds :
    \E enc_len \in LenChoices(buckets[bucket_id][1]), x \in EncoderFeeds :
        EncodeToLatent(bucket_id, enc_len, x)

DoDecode ==
    /\ status = "constructed"
    /\ \E bucket_id \in BucketIds :
       \E latent \in LatentArgs(bucket_id),
          lens \in LatentFeedLengths(buckets[bucket_id][2]),
          d \in DecoderFeeds :
       \E noise \in NoiseChoices(DecodeError(bucket_id, lens[1], lens[2]) = "none"),
          drop \in DropChoices(DecodeError(bucket_id, lens[1], lens[2]) = "none") :
           DecodeFromLatent(bucket_id, latent[1], latent[2], lens[1], lens[2], d,
                            noise, drop)

DoKlRateUpdate == \E v \in KlRates : KlRateUpdate(v)

DoGetBatch == \E bucket_id \in BucketIds : GetBatch(bucket_id)

Next == DoStep \/ DoEncode \/ DoDecode \/ DoKlRateUpdate \/ DoGetBatch

Spec == Init /\ [][Next]_vars

\* get_batch as a function of the model's buckets, its batch_size and the
\* examples drawn: the examples that fit a bucket, and a data set that holds
\* one or two of them in one bucket and nothing in the others, of a model
\* whose construction returned.
FittingExamples(bucket) ==
    { <<i, o>> : i \in SeqsUpTo(InTokens, Min(bucket[1], MaxSeqLen)),
                 o \in SeqsUpTo(OutTokens, Min(bucket[2], MaxSeqLen)) }

InitBatch ==
    \E bkts \in BucketLists \ {<< >>}, bs \in 1..MaxBatch :
    \E filled \in 1..Len(bkts) :
    \E e1 \in FittingExamples(bkts[filled]), e2 \in FittingExamples(bkts[filled]) :
    \E checks_lengths \in LossLengthChecks :
        /\ Constructed(bkts, bs, CHOOSE c \in SamplingConfigs : c.num_samples = 0,
                       FALSE, FALSE, FALSE,
                       Construct(bkts, CHOOSE c \in SamplingConfigs : c.num_samples = 0,
                                 FALSE, FALSE, "given", "callable", checks_lengths))
        /\ status = "constructed"
        /\ data = [b \in 1..Len(bkts) |-> IF b = filled THEN {e1, e2} ELSE {}]

FirstGetBatch == last.op = "new" /\ DoGetBatch

SpecBatch == InitBatch /\ [][FirstGetBatch]_vars

\* Construction as a function of num_samples and target_vocab_size: the
\* arguments are held in the graph record until the constructor has run.
NumSamplesArgs == {0, 1, 100, NumSampled, 600}
VocabSizeArgs == {1, 100, NumSampled, 20000}

InitSampling ==
    \E bkts \in BucketLists \ {<< >>},
       num_samples \in NumSamplesArgs, target_vocab_size \in VocabSizeArgs,
       optimizer \in Optimizers, weight_initializer \in WeightInitializers :
        /\ buckets = bkts
        /\ batch_size = 1
        /\ word_dropout = FALSE
        /\ graph = ArgsGraph([num_samples |-> num_samples,
                              target_vocab_size |-> target_vocab_size],
                             optimizer, weight_initializer)
        /\ status = "constructing"
        /\ objective = NoObjective
        /\ params = InitialParams(bkts)
        /\ global_step = 0
        /\ learning_rate = LearningRateArg
        /\ kl_rate = 0
        /\ data = [b \in 1..Len(bkts) |-> {}]
        /\ batch = NoBatch
        /\ last = NoCall

ConstructModel ==
    /\ status = "constructing"
    /\ \E forward_only \in BOOLEAN, feed_previous \in BOOLEAN,
          checks_lengths \in LossLengthChecks :
         LET c == Construct(buckets, SamplingOf(graph), forward_only,
                            feed_previous, graph.optimizer,
                            graph.weight_initializer, checks_lengths)
         IN  /\ graph' = c.graph
             /\ status' = c.status
             /\ objective' = c.objective
    /\ UNCHANGED <<buckets, batch_size, word_dropout, params, global_step,
                   learning_rate, kl_rate, data, batch, last>>

SpecSampling == InitSampling /\ [][ConstructModel]_vars

\* variational_decoder_with_buckets as a function of the lengths of the
\* targets and weights lists it is handed and of the bucket list.
InitObjective ==
    \E bkts \in BucketLists \ {<< >>}, n_targets \in 0..MaxListLen,
       n_weights \in 0..MaxListLen :
        /\ buckets = bkts
        /\ batch_size = 1
        /\ word_dropout = FALSE
        /\ graph = NoGraph
        /\ status = "constructing"
        /\ objective = [NoObjective EXCEPT !.state = "args",
                                           !.n_decoder_inputs = n_targets + 1,
                                           !.n_targets = n_targets,
                                           !.n_weights = n_weights]
        /\ params = InitialParams(bkts)
        /\ global_step = 0
        /\ learning_rate = LearningRateArg
        /\ kl_rate = 0
        /\ data = [b \in 1..Len(bkts) |-> {}]
        /\ batch = NoBatch
        /\ last = NoCall

BuildObjective ==
    /\ objective.state = "args"
    /\ \E checks_lengths \in LossLengthChecks :
         objective' = ObjectiveCall("done", objective.n_decoder_inputs,
                                    objective.n_targets, objective.n_weights,
                                    VariationalDecoderWithBuckets(
                                        objective.n_decoder_inputs, objective.n_targets,
                                        objective.n_weights, buckets, checks_lengths))
    /\ UNCHANGED <<buckets, batch_size, word_dropout, graph, status, params,
                   global_step, learning_rate, kl_rate, data, batch, last>>

SpecObjective == InitObjective /\ [][BuildObjective]_vars

\* ==================================================================== claims

\* The example get_batch drew for batch element b, and the element's column
\* of the returned batch-major decoder / encoder vectors.
Example(b) == batch.examples[b]

DecoderColumn(b) ==
    [t \in 1..Len(batch.decoder_inputs) |-> batch.decoder_inputs[t][b]]

EncoderColumn(b) ==
    [t \in 1..Len(batch.encoder_inputs) |-> batch.encoder_inputs[t][b]]

\* C1: in every batch get_batch returns, the weight of batch element b at
\* decoder position t is 0 if and only if t is the last position of the bucket
\* or the decoder token at position t+1 is PAD, and 1 otherwise; with
\* buckets [(2,4)], batch_size 1, input [3] and output [5] the weights are
\* [1,0,0,0].
C1_WeightMasking ==
    batch.returned =>
        LET width == buckets[batch.bucket_id][2]
        IN  /\ \A b \in 1..batch_size : \A t \in 0..(width - 1) :
                /\ batch.weights[t + 1][b] \in {0, 1}
                /\ batch.weights[t + 1][b] = 0
                     <=> (t = width - 1 \/ batch.decoder_inputs[t + 2][b] = PAD_ID)
            /\ (buckets = << <<2, 4>> >> /\ batch_size = 1
                    /\ Example(1) = << <<3>>, <<5>> >>)
                 => batch.weights = << <<1>>, <<0>>, <<0>>, <<0>> >>

C1_Witness ==
    /\ batch.returned
    /\ buckets = << <<2, 4>> >>
    /\ batch_size = 1
    /\ Example(1) = << <<3>>, <<5>> >>
    /\ batch.decoder_inputs = << <<GO_ID>>, <<5>>, <<PAD_ID>>, <<PAD_ID>> >>
    /\ batch.weights = << <<1>>, <<0>>, <<0>>, <<0>> >>

\* C2: get_batch returns exactly input-width encoder vectors, output-width
\* decoder vectors and output-width weight vectors, each of length batch_size.
C2_BatchShape ==
    batch.returned =>
        /\ Len(batch.encoder_inputs) = buckets[batch.bucket_id][1]
        /\ Len(batch.decoder_inputs) = buckets[batch.bucket_id][2]
        /\ Len(batch.weights) = buckets[batch.bucket_id][2]
        /\ \A t \in 1..Len(batch.encoder_inputs) :
                Len(batch.encoder_inputs[t]) = batch_size
        /\ \A t \in 1..Len(batch.decoder_inputs) :
                Len(batch.decoder_inputs[t]) = batch_size
        /\ \A t \in 1..Len(batch.weights) : Len(batch.weights[t]) = batch_size

C2_Witness ==
    /\ batch.returned
    /\ batch_size = 2
    /\ buckets[batch.bucket_id] = <<2, 4>>
    /\ Example(1) # Example(2)
    /\ Len(batch.encoder_inputs) = 2
    /\ Len(batch.decoder_inputs) = 4

\* C3: for every example that fits its bucket (input_len <= input width and
\* output_len <= output width) the decoder sequence get_batch renders is GO,
\* then the complete output sequence, then only PAD, of total length exactly
\* the bucket's output width.
C3_DecoderRendering ==
    batch.returned =>
        \A b \in 1..batch_size :
            LET width == buckets[batch.bucket_id][2]
                out == Example(b)[2]
            IN  /\ Len(DecoderColumn(b)) = width
                /\ DecoderColumn(b)
                     = <<GO_ID>> \o out \o Repeat(PAD_ID, width - 1 - Len(out))

\* Trailing PAD tokens removed.
RECURSIVE StripTrailingPad(_)
StripTrailingPad(s) ==
    IF s # << >> /\ s[Len(s)] = PAD_ID
    THEN StripTrailingPad(SubSeq(s, 1, Len(s) - 1))
    ELSE s

\* C4 as stated: for every input sequence shorter than the bucket's input
\* width, the rendered encoder column reversed back and stripped of trailing
\* PAD equals the input sequence.
C4_RoundTripAnyInput ==
    batch.returned =>
        \A b \in 1..batch_size :
            Len(Example(b)[1]) < buckets[batch.bucket_id][1]
                => StripTrailingPad(Reversed(EncoderColumn(b))) = Example(b)[1]

\* C4: the same for every such input sequence that does not itself end with
\* a PAD token.
C4_RoundTrip ==
    batch.returned =>
        \A b \in 1..batch_size :
            LET input == Example(b)[1]
            IN  (/\ Len(input) < buckets[batch.bucket_id][1]
                 /\ (input = << >> \/ input[Len(input)] # PAD_ID))
                => StripTrailingPad(Reversed(EncoderColumn(b))) = input

C4_Witness ==
    /\ batch.returned
    /\ buckets[batch.bucket_id][1] = 2
    /\ Example(1)[1] = <<3>>
    /\ EncoderColumn(1) = <<PAD_ID, 3>>
    /\ StripTrailingPad(Reversed(EncoderColumn(1))) = <<3>>

\* A step call whose list lengths disagree with the bucket's widths.
LengthMismatch(call) ==
    \/ call.enc_len # buckets[call.bucket_id][1]
    \/ call.dec_len # buckets[call.bucket_id][2]
    \/ call.w_len # buckets[call.bucket_id][2]

\* C5: a step whose encoder, decoder or weights length differs from the
\* bucket's width fails with ValueError, executes no update op and leaves the
\* parameters, the global step, the learning rate and kl_rate as they were.
C5_LengthMismatch ==
    [][ (last'.op = "step" /\ LengthMismatch(last'))
            => /\ last'.error = "ValueError"
               /\ last'.updates_run = {}
               /\ params' = params
               /\ global_step' = global_step
               /\ learning_rate' = learning_rate
               /\ kl_rate' = kl_rate ]_vars

C5_Witness ==
    /\ last.op = "step"
    /\ last.error = "ValueError"
    /\ last.enc_len = buckets[last.bucket_id][1]
    /\ last.dec_len = buckets[last.bucket_id][2]
    /\ last.w_len # buckets[last.bucket_id][2]
    /\ ~last.forward_only
    /\ global_step = 1
    /\ kl_rate = 10

\* C6: a successful training step executes the update op of exactly the
\* requested bucket and returns (gradient norm, loss, KL cost, no outputs); a
\* successful forward-only step executes no update op, leaves the parameters
\* and the global step unchanged and returns (no gradient norm, loss, KL cost,
\* outputs) with one output per decoder position of the bucket.
C6_StepReturns ==
    [][ (last'.op = "step" /\ last'.error = "none")
            => /\ last'.loss.kind = "loss" /\ last'.loss.bucket = last'.bucket_id
               /\ last'.kl_cost.kind = "kl_cost"
               /\ last'.kl_cost.bucket = last'.bucket_id
               /\ IF ~last'.forward_only
                  THEN /\ last'.updates_run = {last'.bucket_id}
                       /\ last'.gradient_norm.kind = "gradient_norm"
                       /\ last'.gradient_norm.bucket = last'.bucket_id
                       /\ last'.outputs_none
                  ELSE /\ last'.updates_run = {}
                       /\ params' = params
                       /\ global_step' = global_step
                       /\ last'.gradient_norm = NoneValue
                       /\ ~last'.outputs_none
                       /\ Len(last'.outputs) = buckets[last'.bucket_id][2]
                       /\ \A l \in 1..Len(last'.outputs) :
                            /\ last'.outputs[l].kind = "output"
                            /\ last'.outputs[l].bucket = last'.bucket_id
                            /\ last'.outputs[l].pos = l ]_vars

C6_Witness ==
    /\ last.op = "step"
    /\ last.error = "none"
    /\ last.forward_only
    /\ last.bucket_id = 2
    /\ Len(last.outputs) = 2
    /\ global_step = 2

\* Some bucket is wider, on the input or on the output side, than the last.
ExceedsLast(bkts) ==
    \E j \in 1..Len(bkts) :
        \/ bkts[j][1] > bkts[Len(bkts)][1]
        \/ bkts[j][2] > bkts[Len(bkts)][2]

InputExceedsLast(bkts, j) == bkts[j][1] > bkts[Len(bkts)][1]

OutputExceedsLast(bkts, j) == bkts[j][2] > bkts[Len(bkts)][2]

\* C7 as stated: construction with a malformed bucket list, in particular one
\* in which some bucket's input or output width exceeds the last bucket's,
\* fails.
C7_MalformedRejected ==
    (buckets = << >> \/ ExceedsLast(buckets)) => status # "constructed"

\* The constructor was given what it calls: a callable weight_initializer if
\* sampled softmax is active, an optimizer unless forward_only.
ToolsGiven ==
    /\ SampledSoftmax(SamplingOf(graph)) => graph.weight_initializer = "callable"
    /\ graph.has_updates => graph.optimizer = "given"

\* The first bucket whose output width exceeds the last bucket's.
FirstOutputExceeding(bkts) ==
    CHOOSE j \in 1..Len(bkts) :
        /\ OutputExceedsLast(bkts, j)
        /\ \A k \in 1..(j - 1) : ~OutputExceedsLast(bkts, k)

\* C7: construction does not check the order of the buckets.  Given the
\* weight initializer and the optimizer it calls, an empty list fails
\* (IndexError on buckets[-1]) and every non-empty list in which no output
\* width exceeds the last bucket's is constructed, whatever its input widths.
\* A list in which an output width exceeds the last bucket's is constructed
\* too, unless the helper's loss raises ValueError on the unequal lists it is
\* handed for the first such bucket, after the two precondition checks passed
\* and that bucket's decoder was built.  On a constructed model a bucket
\* whose input width exceeds the last bucket's fails only when step or
\* encode_to_latent is called for it with lists of the bucket's widths, with
\* an IndexError on an encoder placeholder that was never allocated; a
\* bucket whose output width exceeds the last bucket's fails when step is
\* called for it with lists of the bucket's widths, or decode_from_latent
\* with any lists, with an IndexError on a decoder placeholder that was never
\* allocated.
C7_LateFailure ==
    /\ (buckets = << >> /\ ToolsGiven) => status = "IndexError"
    /\ (/\ buckets # << >>
        /\ ToolsGiven
        /\ \A j \in 1..Len(buckets) : ~OutputExceedsLast(buckets, j))
       => status = "constructed"
    /\ (/\ buckets # << >>
        /\ ToolsGiven
        /\ \E j \in 1..Len(buckets) : OutputExceedsLast(buckets, j))
       => \/ status = "constructed"
          \/ /\ status = "ValueError"
             /\ objective.short = "none"
             /\ objective.built = FirstOutputExceeding(buckets)
    /\ (/\ last.op \in {"step", "encode_to_latent"}
        /\ InputExceedsLast(buckets, last.bucket_id)
        /\ last.enc_len = buckets[last.bucket_id][1]
        /\ last.op = "step" => ~LengthMismatch(last))
       => last.error = "IndexError"
    /\ (/\ last.op \in {"step", "decode_from_latent"}
        /\ OutputExceedsLast(buckets, last.bucket_id)
        /\ last.op = "step" => ~LengthMismatch(last))
       => last.error = "IndexError"

C7_Witness ==
    /\ status = "constructed"
    /\ ExceedsLast(buckets)
    /\ last.op = "step"
    /\ InputExceedsLast(buckets, last.bucket_id)
    /\ ~LengthMismatch(last)
    /\ last.error = "IndexError"

C9_RatesFrame ==
    /\ kl_rate = 0
    /\ learning_rate = LearningRateArg
    /\ [][ /\ last'.op = "kl_rate_update" => kl_rate' = last'.value
           /\ last'.op # "kl_rate_update" => kl_rate' = kl_rate
           /\ learning_rate' = learning_rate ]_vars

C9_Witness ==
    /\ kl_rate = 10
    /\ learning_rate = LearningRateArg
    /\ last.op = "step"
    /\ last.error = "none"
    /\ last.updates_run = {last.bucket_id}
    /\ global_step = 2

\* A forward-only step with prob false on input x and decoder inputs d for
\* bucket b, with lists of the bucket's widths, in the current state.
ForwardStep(b, x, d, noise) ==
    StepCall(b, buckets[b][1], buckets[b][2], buckets[b][2], TRUE, FALSE, x, d,
             "continue", noise, 0)

\* The most recent call is a successful decode_from_latent, on a model without
\* word dropout and with feed_previous false, for which a forward-only step on
\* the same bucket returns.
DecodedDeterministic ==
    /\ last.op = "decode_from_latent"
    /\ last.error = "none"
    /\ ~word_dropout
    /\ ~graph.feed_previous
    /\ ForwardStep(last.bucket_id, "x1", last.dec, 0).error = "none"

\* C10 as stated: decode_from_latent applied to the (mean, logvar) that
\* encode_to_latent(x, b) returns yields the outputs of a forward-only step on
\* the same x, b and decoder inputs.
C10_RoundTripEncoderLogvar ==
    DecodedDeterministic =>
        \A x \in EncoderFeeds :
            (/\ last.means = EncoderMeans(ParamsOf(last.bucket_id), x, last.bucket_id)
             /\ last.logvars = EncoderLogvars(ParamsOf(last.bucket_id), x, last.bucket_id))
            => \A noise \in Noise :
                 ForwardStep(last.bucket_id, x, last.dec, noise).outputs
                    = last.outputs

\* C10: decode_from_latent applied to the mean that encode_to_latent(x, b)
\* returns and to the degenerate log-variance -800.0, the one step feeds when
\* prob is false, yields the outputs of a forward-only step with prob false on
\* the same x, b and decoder inputs under the same parameters.
C10_RoundTripDegenerate ==
    DecodedDeterministic =>
        \A x \in EncoderFeeds :
            (/\ last.means = EncoderMeans(ParamsOf(last.bucket_id), x, last.bucket_id)
             /\ last.logvars = DegenerateLogvar)
            => \A noise \in Noise :
                 ForwardStep(last.bucket_id, x, last.dec, noise).outputs
                    = last.outputs

C10_Witness ==
    /\ DecodedDeterministic
    /\ last.bucket_id = 2
    /\ last.means = EncoderMeans(ParamsOf(2), "x1", 2)
    /\ last.logvars = DegenerateLogvar
    /\ Len(last.outputs) = 2
    /\ ForwardStep(2, "x1", last.dec, 1).outputs = last.outputs
    /\ global_step = 1

\* C11: sampled softmax is active (the output projection exists) exactly when
\* 0 < num_samples < target_vocab_size, and when it is active the
\* reconstruction loss samples exactly num_samples classes.
C11_SampledSoftmax ==
    status = "constructed" =>
        /\ graph.output_projection
              <=> (0 < graph.num_samples
                   /\ graph.num_samples < graph.target_vocab_size)
        /\ graph.output_projection => graph.num_sampled = graph.num_samples

\* The most recent call is a step that returned.
StepReturned(call) == call.op = "step" /\ call.error = "none"

\* C12: all buckets share one parameter set.  Building bucket j > 1 creates
\* no variables (it uses the set the first bucket created), so every
\* bucket's update op writes the same set; and a step on any bucket that
\* follows a training step reads the parameters that training step wrote.
C12_SharedParameters ==
    /\ [](status = "constructed" =>
            \A j \in BucketIds :
                /\ j > 1 => graph.variables[j] # j
                /\ graph.variables[j] = graph.variables[1])
    /\ [][ (/\ StepReturned(last) /\ last.updates_run # {}
            /\ StepReturned(last'))
           => /\ graph.variables[last'.bucket_id] \in VariablesWritten(last)
              /\ last'.loss.p = params[graph.variables[last.bucket_id]] ]_vars

C12_Witness ==
    /\ Len(buckets) = 2
    /\ StepReturned(last)
    /\ last.bucket_id = 2
    /\ last.forward_only
    /\ last.loss.p = 1
    /\ params[BucketVariables(1)] = 1
    /\ global_step = 1

\* C13: the global step counter starts at 0 and counts the training steps
\* (forward_only false) that returned: each advances it by exactly one
\* whatever the bucket, and a step that raises, a forward-only step,
\* encode_to_latent, decode_from_latent, kl_rate_update and get_batch leave
\* it unchanged.
C13_GlobalStepCounts ==
    /\ global_step = 0
    /\ [][ IF StepReturned(last') /\ ~last'.forward_only
           THEN global_step' = global_step + 1
           ELSE global_step' = global_step ]_vars

C13_Witness ==
    /\ StepReturned(last)
    /\ ~last.forward_only
    /\ last.bucket_id = 2
    /\ last.updates_run = {2}
    /\ global_step = 2

\* The bucket list is sorted ascending, on both widths.
SortedAscending(bkts) ==
    \A j \in 1..(Len(bkts) - 1) :
        bkts[j][1] <= bkts[j + 1][1] /\ bkts[j][2] <= bkts[j + 1][2]

\* C14: on a model built from an ascending-sorted bucket list, whatever its
\* construction configuration, a step call for a valid bucket whose encoder,
\* decoder and weight lengths equal the bucket's widths returns without
\* raising.
C14_StepCompletes ==
    (/\ status = "constructed"
     /\ SortedAscending(buckets)
     /\ last.op = "step"
     /\ ~LengthMismatch(last))
    => last.error = "none"

====
